---- MODULE Spec2Model ----
(***************************************************************************)
(* DVRServer (src/server/DVRServer.cpp): the per-server session object of  *)
(* the Bluecherry client.  It polls the server every 60 s for its device   *)
(* list and its status, reconciles the camera list against each device     *)
(* list reply, derives a status alert message from each stats reply and    *)
(* pins the server's SSL certificate on first use.                         *)
(*                                                                         *)
(* All handlers are slots of one QObject living in one thread: each runs   *)
(* to completion, so each is one atomic action here.                       *)
(***************************************************************************)
EXTENDS Integers, Sequences, FiniteSets, TLC

(***************************************************************************)
(* Bounds of the model.                                                    *)
(***************************************************************************)
\* device ids the server reports are 1..MaxId
MaxId == 2
\* device entries in one device list document (reconciliation specification)
MaxEntries == 2
\* device entries in one device list document (session specification)
MaxSessionEntries == 1
\* children of the stats element in one stats document (stats specification)
MaxChildren == 2
\* children of the stats element in one stats document (session specification)
MaxSessionChildren == 1
\* certificates that may be presented are 1..MaxCert
MaxCert == 12
\* distinct SHA-1 digests the presented certificates have
MaxDigest == 5

\* ports the user may type and the settings may hold are 0..MaxPort, and the
\* default port
MaxPort == 60

\* m_refreshTimer.start(60000)
RefreshInterval == 60000

\* m_port = 7001, and port == 0 ? 7001 : port
DefaultPort == 7001

(***************************************************************************)
(* Text.  A QString is a sequence of one-character strings; the fixed,     *)
(* translated messages are kept as one chunk each.                         *)
(***************************************************************************)
Digits == <<"0", "1", "2", "3", "4", "5", "6", "7", "8", "9">>

IsDigit(c) == \E d \in 1..10 : Digits[d] = c

DigitValue(c) == (CHOOSE d \in 1..10 : Digits[d] = c) - 1

\* the decimal text of a natural number, as the server writes a device id
RECURSIVE DecimalText(_)
DecimalText(n) ==
    IF n < 10 THEN <<Digits[n + 1]>>
    ELSE Append(DecimalText(n \div 10), Digits[(n % 10) + 1])

\* QString::toUInt(&ok): ok iff the text is a non-empty run of decimal digits;
\* the value is 0 when not ok.  (The ids of the model have one or two digits,
\* far from the 32 bits where toUInt fails and the cast to int wraps.)
RECURSIVE DecimalValue(_)
DecimalValue(s) ==
    IF s = <<>> THEN 0
    ELSE 10 * DecimalValue(SubSeq(s, 1, Len(s) - 1)) + DigitValue(s[Len(s)])

ToUIntOk(s) ==
    /\ Len(s) > 0
    /\ \A i \in 1..Len(s) : IsDigit(s[i])

ToUInt(s) == IF ToUIntOk(s) THEN DecimalValue(s) ELSE 0

IsSpace(c) == c \in {" ", "\n", "\t", "\r"}

\* QString::trimmed(): white space removed from both ends
RECURSIVE TrimLeft(_)
TrimLeft(s) == IF s # <<>> /\ IsSpace(Head(s)) THEN TrimLeft(Tail(s)) ELSE s

RECURSIVE TrimRight(_)
TrimRight(s) ==
    IF s # <<>> /\ IsSpace(s[Len(s)]) THEN TrimRight(SubSeq(s, 1, Len(s) - 1)) ELSE s

Trimmed(s) == TrimRight(TrimLeft(s))

\* all sequences over S of length at most n
RECURSIVE SeqsUpTo(_, _)
SeqsUpTo(S, n) ==
    IF n = 0 THEN {<<>>}
    ELSE LET shorter == SeqsUpTo(S, n - 1)
         IN  shorter \cup {Append(s, x) : s \in {t \in shorter : Len(t) = n - 1}, x \in S}

Range(s) == {s[i] : i \in 1..Len(s)}

(***************************************************************************)
(* Device list documents (/ajax/devices.php?XML=1).                        *)
(***************************************************************************)
DeviceIds == 1..MaxId

\* one <device> element: its id attribute, if any, and whether
\* DVRCamera::parseXML succeeds on its fields
DeviceEntries ==
    {[hasId |-> TRUE, id |-> DecimalText(i), fields |-> f] :
        i \in DeviceIds, f \in {"ok", "bad"}}
    \cup {[hasId |-> TRUE, id |-> <<"-", "1">>, fields |-> "ok"],
          [hasId |-> FALSE, id |-> <<>>, fields |-> "ok"]}

\* a finished QNetworkReply of a device list request: a transport error, or a
\* document that may lack the devices element, with the device entries read
\* before the devices element is closed (closed) or the document turns out
\* malformed (not closed)
CamerasReplies(n) ==
    {[error |-> TRUE, hasDevices |-> FALSE, entries |-> <<>>, closed |-> FALSE],
     [error |-> FALSE, hasDevices |-> FALSE, entries |-> <<>>, closed |-> TRUE]}
    \cup {[error |-> FALSE, hasDevices |-> TRUE, entries |-> es, closed |-> c] :
            es \in SeqsUpTo(DeviceEntries, n), c \in BOOLEAN}

(***************************************************************************)
(* Signals DVRServer emits.  A notification records the signal, the camera *)
(* it carries with that camera's online flag at the moment of the emit,    *)
(* and the message it carries.                                             *)
(***************************************************************************)
CameraAdded(id, on) == [sig |-> "cameraAdded", id |-> id, online |-> on, msg |-> <<>>]

CameraRemoved(id, on) == [sig |-> "cameraRemoved", id |-> id, online |-> on, msg |-> <<>>]

DevicesReady == [sig |-> "devicesReady", id |-> 0, online |-> FALSE, msg |-> <<>>]

StatusAlertMessageChanged(m) ==
    [sig |-> "statusAlertMessageChanged", id |-> 0, online |-> FALSE, msg |-> m]

Changed == [sig |-> "changed", id |-> 0, online |-> FALSE, msg |-> <<>>]

Signals(emitted, sig) == {i \in 1..Len(emitted) : emitted[i].sig = sig}

(***************************************************************************)
(* DVRServer::updateCameras, as a function of api->isOnline() and          *)
(* m_refreshTimer.isActive(): the timer after it and the requests it sent. *)
(***************************************************************************)
DevicesRequest == "/ajax/devices.php?XML=1"

StatsRequest == "/ajax/stats.php"

\* UpdateCamerasResult with a timer that is not started again
UpdateCamerasSingleShot(isOnline, active) ==
    [timer |-> FALSE,
     sent |-> IF isOnline THEN <<DevicesRequest, StatsRequest>> ELSE <<>>]

\* UpdateCamerasResult without the api->isOnline() test
UpdateCamerasUnguarded(isOnline, active) ==
    [timer |-> TRUE, sent |-> <<DevicesRequest, StatsRequest>>]

UpdateCamerasResult(isOnline, active) ==
    IF ~isOnline THEN [timer |-> FALSE, sent |-> <<>>]
    ELSE [timer |-> IF ~active THEN TRUE ELSE active,
          sent |-> <<DevicesRequest, StatsRequest>>]

(***************************************************************************)
(* DVRServer::updateCamerasReply, as a function of the reply and the       *)
(* object's fields.                                                        *)
(***************************************************************************)
\* QList::removeAt(i), 1-based
RemoveAt(s, i) == SubSeq(s, 1, i - 1) \o SubSeq(s, i + 1, Len(s))

\* ReadDevice without the m_cameras.contains(camera) test
ReadDeviceAlwaysAppends(e, st) ==
    IF ~e.hasId THEN st
    ELSE IF ~ToUIntOk(e.id) THEN [st EXCEPT !.xmlError = TRUE]
    ELSE LET deviceId == ToUInt(e.id)
             seen == [st EXCEPT !.idSet = @ \cup {deviceId},
                                !.camOnline[deviceId] = TRUE]
         IN  IF e.fields # "ok" THEN [seen EXCEPT !.xmlError = TRUE]
             ELSE [seen EXCEPT !.cameras = Append(@, deviceId),
                               !.emitted = Append(@, CameraAdded(deviceId, TRUE))]

\* one <device> start element inside <devices>; st is the handler's locals
\* and the fields it writes: idSet, xmlError (xml.hasError()), cameras
\* (m_cameras), camOnline and the signals emitted so far
ReadDevice(e, st) ==
    IF ~e.hasId THEN st
    ELSE IF ~ToUIntOk(e.id) THEN [st EXCEPT !.xmlError = TRUE]
    ELSE LET deviceId == ToUInt(e.id)
             seen == [st EXCEPT !.idSet = @ \cup {deviceId},
                                !.camOnline[deviceId] = TRUE]
         IN  IF e.fields # "ok" THEN [seen EXCEPT !.xmlError = TRUE]
             ELSE IF deviceId \in Range(seen.cameras) THEN seen
             ELSE [seen EXCEPT !.cameras = Append(@, deviceId),
                               !.emitted = Append(@, CameraAdded(deviceId, TRUE))]

\* while (xml.readNext() != QXmlStreamReader::Invalid): once an error has been
\* raised readNext() returns Invalid, so the entries after it are never read
RECURSIVE ReadDevices(_, _)
ReadDevices(entries, st) ==
    IF entries = <<>> \/ st.xmlError THEN st
    ELSE ReadDevices(Tail(entries), ReadDevice(Head(entries), st))

\* the outer loop: the document's devices element, if it has one, is read to
\* its end tag or to the point where the document is malformed
ReadDocument(r, st) ==
    IF ~r.hasDevices THEN st
    ELSE LET read == ReadDevices(r.entries, st)
         IN  IF ~read.xmlError /\ ~r.closed THEN [read EXCEPT !.xmlError = TRUE]
             ELSE read

\* ParseFailed without the test for the devices element
ParseFailedIgnoringDevices(hasDevicesElement, xmlError) == xmlError

\* if (!hasDevicesElement) xml.raiseError(...); if (xml.hasError()) return;
ParseFailed(hasDevicesElement, xmlError) == ~hasDevicesElement \/ xmlError

\* IndexAfterRemoval without the --i
IndexAfterRemovalSkips(i) == i + 1

\* the index the removal loop looks at after it removed the camera at i:
\* --i, then the loop's ++i
IndexAfterRemoval(i) == i

\* for (i = 0; i < m_cameras.size(); ++i) if (!idSet.contains(...)) remove
RECURSIVE RemoveAbsent(_, _)
RemoveAbsent(i, st) ==
    IF i > Len(st.cameras) THEN st
    ELSE IF st.cameras[i] \notin st.idSet
         THEN LET c == st.cameras[i]
              IN  RemoveAbsent(IndexAfterRemoval(i),
                    [st EXCEPT !.cameras = RemoveAt(@, i),
                               !.emitted = Append(@, CameraRemoved(c, st.camOnline[c]))])
         ELSE RemoveAbsent(i + 1, st)

\* DevicesReadyDue for the first successful reply only
DevicesReadyDueOnce(loaded, wasEmpty, cameras) == ~loaded

\* if (!devicesLoaded || (wasEmpty && !m_cameras.isEmpty()))
DevicesReadyDue(loaded, wasEmpty, cameras) == ~loaded \/ (wasEmpty /\ cameras # <<>>)

\* the whole handler: the fields after it and the signals it emitted
UpdateCamerasReplyResult(r, cameras, online, loaded) ==
    LET start == [idSet |-> {}, xmlError |-> FALSE, cameras |-> cameras,
                  camOnline |-> online, emitted |-> <<>>, devicesLoaded |-> loaded,
                  ok |-> FALSE]
        wasEmpty == cameras = <<>>
    IN  IF r.error THEN start
        ELSE LET read == ReadDocument(r, start)
             IN  IF ParseFailed(r.hasDevices, read.xmlError) THEN read
                 ELSE LET kept == RemoveAbsent(1, read)
                      IN  IF DevicesReadyDue(loaded, wasEmpty, kept.cameras)
                          THEN [kept EXCEPT !.devicesLoaded = TRUE, !.ok = TRUE,
                                            !.emitted = Append(@, DevicesReady)]
                          ELSE [kept EXCEPT !.ok = TRUE]

(***************************************************************************)
(* Stats documents (/ajax/stats.php) and DVRServer::updateStatsReply.      *)
(***************************************************************************)
TextDown == <<"d", "o", "w", "n">>

TextUp == <<"u", "p">>

TextOK == <<"O", "K">>

\* tr("Server process stopped")
ServerProcessStopped == <<"Server process stopped">>

\* tr("Status request error: %1").arg(text)
StatusRequestError(text) == <<"Status request error: ">> \o text

InvalidServerResponse == StatusRequestError(<<"invalid server response">>)

\* the child elements of <stats> the handler looks at
StatsChildren ==
    {[tag |-> "message", text |-> t] : t \in {<<>>, TextOK}}
    \cup {[tag |-> "bc-server-running", text |-> t] :
            t \in {TextDown, <<" ">> \o TextDown \o <<"\n">>, TextUp}}

\* a finished QNetworkReply of a stats request: a transport error with its
\* error string, or a document that may lack the stats element
StatsReplies(n) ==
    {[error |-> TRUE, errorString |-> <<"Connection refused">>, hasStats |-> FALSE,
      children |-> <<>>],
     [error |-> FALSE, errorString |-> <<>>, hasStats |-> FALSE, children |-> <<>>]}
    \cup {[error |-> FALSE, errorString |-> <<>>, hasStats |-> TRUE, children |-> cs] :
            cs \in SeqsUpTo(StatsChildren, n)}

\* one start element inside <stats>; st is the handler's locals message and
\* hadMessageElement
ReadStatsChild(c, st) ==
    IF c.tag = "message"
    THEN [hadMessageElement |-> TRUE,
          message |-> IF c.text # <<>> THEN c.text ELSE st.message]
    ELSE IF c.tag = "bc-server-running" /\ Trimmed(c.text) = TextDown
         THEN [st EXCEPT !.message = ServerProcessStopped]
         ELSE st

RECURSIVE ReadStats(_, _)
ReadStats(children, st) ==
    IF children = <<>> THEN st
    ELSE ReadStats(Tail(children), ReadStatsChild(Head(children), st))

\* the message the handler derives from the reply
StatsMessage(r) ==
    IF r.error THEN StatusRequestError(r.errorString)
    ELSE LET start == [hadMessageElement |-> FALSE, message |-> <<>>]
             read == IF r.hasStats THEN ReadStats(r.children, start) ELSE start
         IN  IF ~read.hadMessageElement THEN InvalidServerResponse ELSE read.message

\* StatsAlertChanges without the comparison
StatsAlertAlwaysChanges(message, alert) == TRUE

\* if (message != m_statusAlertMessage) { assign; emit }
StatsAlertChanges(message, alert) == message # alert

\* the whole handler: the alert after it and the signals it emitted
UpdateStatsReplyResult(r, alert) ==
    LET message == StatsMessage(r)
    IN  IF StatsAlertChanges(message, alert)
        THEN [alert |-> message, emitted |-> <<StatusAlertMessageChanged(message)>>]
        ELSE [alert |-> alert, emitted |-> <<>>]

(***************************************************************************)
(* DVRServer::disconnected, as a function of the object's fields.          *)
(***************************************************************************)
\* TakenOnline without the setOnline(false)
TakenOnlineKept(on) == on

\* c.setOnline(false) on the camera taken from the list
TakenOnline(on) == FALSE

\* TakeAll as m_cameras.clear(): no camera is set offline or announced
TakeAllSilent(st) == [st EXCEPT !.cameras = <<>>]

\* while (!m_cameras.isEmpty()) { takeFirst; setOnline(false); emit; removed }
RECURSIVE TakeAll(_)
TakeAll(st) ==
    IF st.cameras = <<>> THEN st
    ELSE LET c == Head(st.cameras)
             off == [st.camOnline EXCEPT ![c] = TakenOnline(@)]
         IN  TakeAll([cameras |-> Tail(st.cameras), camOnline |-> off,
                      emitted |-> Append(st.emitted, CameraRemoved(c, off[c]))])

\* m_statusAlertMessage.clear()
ClearedAlert(alert) == <<>>

DisconnectedResult(cameras, online, alert) ==
    LET taken == TakeAll([cameras |-> cameras, camOnline |-> online, emitted |-> <<>>])
    IN  [cameras |-> taken.cameras, camOnline |-> taken.camOnline,
         devicesLoaded |-> FALSE, alert |-> ClearedAlert(alert),
         emitted |-> Append(taken.emitted, StatusAlertMessageChanged(<<>>))]

(***************************************************************************)
(* The pinned certificate: isKnownCertificate and setKnownCertificate.     *)
(* The stored sslDigest setting is 0 when absent or empty.                 *)
(***************************************************************************)
Certificates == 1..MaxCert

\* certificate.digest(QCryptographicHash::Sha1): never empty, not injective
Digest(certificate) == ((certificate - 1) % MaxDigest) + 1

\* writeSetting("sslDigest", digest)
SetKnownCertificateResult(certificate) == Digest(certificate)

\* isKnownCertificate pinning whatever certificate it is shown
IsKnownCertificateRepins(certificate, knownDigest) ==
    [result |-> knownDigest = 0 \/ Digest(certificate) = knownDigest,
     sslDigest |-> SetKnownCertificateResult(certificate),
     emitted |-> <<Changed>>]

IsKnownCertificateResult(certificate, knownDigest) ==
    IF knownDigest = 0
    THEN [result |-> TRUE, sslDigest |-> SetKnownCertificateResult(certificate),
          emitted |-> <<Changed>>]
    ELSE [result |-> Digest(certificate) = knownDigest, sslDigest |-> knownDigest,
          emitted |-> <<>>]

(***************************************************************************)
(* The port: readFromSettings, setPort, serverPort and rtspPort.  The      *)
(* stored port setting is 0 when absent (QVariant().toInt()).              *)
(***************************************************************************)
Ports == (0..MaxPort) \cup {DefaultPort}

\* readFromSettings: m_port = readSetting("port").toInt(); if (!m_port) 7001
ReadFromSettings(stored) == IF stored = 0 THEN DefaultPort ELSE stored

\* setPort: writeSetting("port", port == 0 ? 7001 : port); m_port = port
SetPortResult(port) ==
    [settingsPort |-> IF port = 0 THEN DefaultPort ELSE port,
     m_port |-> port]

(***************************************************************************)
(* What a reply contains, read off the document itself.                    *)
(***************************************************************************)
EntryId(e) == ToUInt(e.id)

\* a device entry with a parseable id whose fields parse
IsValidEntry(e) == e.hasId /\ ToUIntOk(e.id) /\ e.fields = "ok"

\* a device entry whose id is present but no unsigned integer, or whose
\* fields do not parse
IsInvalidEntry(e) == e.hasId /\ (~ToUIntOk(e.id) \/ e.fields # "ok")

\* the device ids the document reports
ObservedIds(r) ==
    {EntryId(r.entries[i]) : i \in {j \in 1..Len(r.entries) :
        r.entries[j].hasId /\ ToUIntOk(r.entries[j].id)}}

\* the ids of the valid entries that follow an invalid entry
SiblingsAfterInvalid(r) ==
    {EntryId(r.entries[j]) : j \in {k \in 1..Len(r.entries) :
        /\ IsValidEntry(r.entries[k])
        /\ \E i \in 1..(k - 1) : IsInvalidEntry(r.entries[i])}}

\* the devices element is there, every entry read from it is well formed,
\* and the document breaks off before the element is closed
StructurallyMalformed(r) ==
    /\ ~r.error /\ r.hasDevices /\ ~r.closed
    /\ \A i \in 1..Len(r.entries) : ~IsInvalidEntry(r.entries[i])

\* a stats document with a bc-server-running child whose trimmed text is down
HasServerDown(r) ==
    /\ ~r.error /\ r.hasStats
    /\ \E i \in 1..Len(r.children) :
        r.children[i].tag = "bc-server-running" /\ Trimmed(r.children[i].text) = TextDown

\* the replies of the specifications below
ShortCamerasReplies == CamerasReplies(MaxSessionEntries)

LongCamerasReplies == CamerasReplies(MaxEntries)

ShortStatsReplies == StatsReplies(MaxSessionChildren)

LongStatsReplies == StatsReplies(MaxChildren)

\* a device list reply as it finishes, with what it contains
Finished(replies) ==
    {[reply |-> r,
      structural |-> StructurallyMalformed(r),
      observed |-> ObservedIds(r),
      siblings |-> SiblingsAfterInvalid(r)] : r \in replies}

FinishedShortCamerasReplies == Finished(ShortCamerasReplies)

FinishedLongCamerasReplies == Finished(LongCamerasReplies)

(***************************************************************************)
(* State.                                                                  *)
(***************************************************************************)
VARIABLES
    online,               \* api->isOnline()
    m_refreshTimer,       \* m_refreshTimer.isActive()
    pendingCameras,       \* the ages of the device list requests in flight: cur
                          \* for requests of this session, old for requests of
                          \* sessions that were disconnected since
    pendingStats,         \* whether stats requests are in flight
    m_cameras,            \* the camera list, as the list of the cameras' unique ids
    camOnline,            \* the online flag of the DVRCamera of each id
    devicesLoaded,
    m_statusAlertMessage,
    sslDigest,            \* the stored sslDigest setting, 0 when absent
    firstUse,             \* the digest pinned by a first use, 0 when none was
                          \* or the digest was set explicitly since
    m_port,
    settingsPort,         \* the stored port setting, 0 when absent
    last,                 \* the handler that ran last, its input and its signals
    history               \* what the handlers did since the last disconnect

vars == <<online, m_refreshTimer, pendingCameras, pendingStats, m_cameras, camOnline,
          devicesLoaded, m_statusAlertMessage, sslDigest, firstUse, m_port,
          settingsPort, last, history>>

sessionVars == <<online, m_refreshTimer, pendingCameras, pendingStats>>

cameraVars == <<m_cameras, camOnline, devicesLoaded>>

certVars == <<sslDigest, firstUse>>

portVars == <<m_port, settingsPort>>

\* serverPort()
ServerPort == m_port

\* rtspPort()
RtspPort == ServerPort + 1

NoCamerasReply == [error |-> TRUE, hasDevices |-> FALSE, entries |-> <<>>, closed |-> FALSE]

Ran(op) ==
    [op |-> op, stale |-> FALSE, error |-> FALSE, ok |-> FALSE, structural |-> FALSE,
     noDevices |-> FALSE, observed |-> {}, siblings |-> {}, reply |-> NoCamerasReply,
     repeat |-> FALSE, age |-> "cur", down |-> FALSE, certificate |-> 0, result |-> FALSE,
     port |-> 0, wasLoaded |-> FALSE, sent |-> <<>>,
     before |-> [cameras |-> <<>>, alert |-> <<>>], emitted |-> <<>>]

\* no stats reply was handled since the last disconnect
NoStats ==
    [valid |-> FALSE, message |-> <<>>, differed |-> FALSE, emitted |-> 0,
     repeat |-> FALSE, pairDiffered |-> FALSE, pairEmitted |-> 0]

\* the record of a stats reply that derived message while the alert was alert
\* and emitted the signals emitted, after the record prev: whether the
\* message differed from the alert, the statusAlertMessageChanged signals it
\* emitted, whether the reply before it derived the same message (repeat),
\* and for such a pair, whether the message differed from the alert before
\* the pair and the signals the pair emitted
StatsHandled(prev, message, alert, emitted) ==
    LET n == Cardinality(Signals(emitted, "statusAlertMessageChanged"))
        again == prev.valid /\ prev.message = message
    IN  [valid |-> TRUE, message |-> message, differed |-> message # alert,
         emitted |-> n, repeat |-> again,
         pairDiffered |-> again /\ prev.differed,
         pairEmitted |-> IF again THEN prev.emitted + n ELSE 0]

\* the observers' view after the signals emitted, in order: the ids announced
\* by a cameraAdded and not by a later cameraRemoved, and whether every
\* cameraAdded was for an id not announced and every cameraRemoved for one
\* that was (balanced)
RECURSIVE Observed(_, _)
Observed(emitted, view) ==
    IF emitted = <<>> THEN view
    ELSE LET n == Head(emitted)
         IN  Observed(Tail(emitted),
                CASE n.sig = "cameraAdded" ->
                        [announced |-> view.announced \cup {n.id},
                         balanced |-> view.balanced /\ n.id \notin view.announced]
                  [] n.sig = "cameraRemoved" ->
                        [announced |-> view.announced \ {n.id},
                         balanced |-> view.balanced /\ n.id \in view.announced]
                  [] OTHER -> view)

\* after construction: no disconnect yet (reconnect), no device list reply of
\* this session processed successfully yet (synced), nothing announced
NoHistory ==
    [stats |-> NoStats, reconnect |-> FALSE, synced |-> FALSE,
     view |-> [announced |-> {}, balanced |-> TRUE]]

\* DVRServer::DVRServer over settings that hold the port stored:
\* readFromSettings(), devicesLoaded(false), nothing requested, timer idle
Constructed(stored) ==
    /\ settingsPort = stored
    /\ m_port = ReadFromSettings(stored)
    /\ online = FALSE
    /\ m_refreshTimer = FALSE
    /\ pendingCameras = {}
    /\ pendingStats = FALSE
    /\ m_cameras = <<>>
    /\ camOnline = [id \in DeviceIds |-> FALSE]
    /\ devicesLoaded = FALSE
    /\ m_statusAlertMessage = <<>>
    /\ sslDigest = 0
    /\ firstUse = 0
    /\ last = Ran("DVRServer")
    /\ history = NoHistory

\* the server was just added: its settings hold no port
Init == Constructed(0)

\* the server is loaded from settings written earlier
InitPort == \E stored \in Ports : Constructed(stored)

(***************************************************************************)
(* The slots.                                                              *)
(***************************************************************************)
\* DVRServer::updateCameras for the signal trigger, run while
\* api->isOnline() is isOnline
updateCameras(isOnline, trigger) ==
    \E res \in {UpdateCamerasResult(isOnline, m_refreshTimer)} :
        /\ m_refreshTimer' = res.timer
        /\ pendingCameras' = IF DevicesRequest \in Range(res.sent)
                              THEN pendingCameras \cup {"cur"} ELSE pendingCameras
        /\ pendingStats' = (pendingStats \/ StatsRequest \in Range(res.sent))
        /\ last' = [Ran(trigger) EXCEPT !.sent = res.sent]

\* DVRServer::updateCamerasReply on the finished reply f.reply of a request
\* of age
updateCamerasReply(f, age) ==
    \E r \in {f.reply},
       res \in {UpdateCamerasReplyResult(f.reply, m_cameras, camOnline, devicesLoaded)} :
        /\ m_cameras' = res.cameras
        /\ camOnline' = res.camOnline
        /\ devicesLoaded' = res.devicesLoaded
        /\ last' = [Ran("updateCamerasReply") EXCEPT
                      !.stale = ~online,
                      !.age = age,
                      !.wasLoaded = devicesLoaded,
                      !.error = r.error,
                      !.ok = res.ok,
                      !.structural = f.structural,
                      !.noDevices = ~r.error /\ ~r.hasDevices,
                      !.observed = f.observed,
                      !.siblings = f.siblings,
                      !.reply = IF res.ok THEN r ELSE NoCamerasReply,
                      !.repeat = last.op = "updateCamerasReply" /\ last.ok /\ res.ok
                                 /\ last.reply = r,
                      !.emitted = res.emitted]
        /\ history' = [history EXCEPT !.synced = @ \/ (age = "cur" /\ res.ok),
                                      !.view = Observed(res.emitted, @)]
        /\ UNCHANGED m_statusAlertMessage

\* DVRServer::updateStatsReply on the finished reply r
updateStatsReply(r) ==
    \E res \in {UpdateStatsReplyResult(r, m_statusAlertMessage)} :
        /\ m_statusAlertMessage' = res.alert
        /\ last' = [Ran("updateStatsReply") EXCEPT
                      !.stale = ~online,
                      !.error = r.error,
                      !.down = HasServerDown(r),
                      !.emitted = res.emitted]
        /\ history' = [history EXCEPT
                         !.stats = StatsHandled(@, StatsMessage(r), m_statusAlertMessage,
                                                res.emitted)]
        /\ UNCHANGED cameraVars

\* DVRServer::disconnected
disconnected ==
    \E res \in {DisconnectedResult(m_cameras, camOnline, m_statusAlertMessage)} :
        /\ m_cameras' = res.cameras
        /\ camOnline' = res.camOnline
        /\ devicesLoaded' = res.devicesLoaded
        /\ m_statusAlertMessage' = res.alert
        /\ last' = [Ran("disconnected") EXCEPT
                      !.before = [cameras |-> m_cameras, alert |-> m_statusAlertMessage],
                      !.emitted = res.emitted]
        /\ history' = [NoHistory EXCEPT !.reconnect = TRUE,
                                        !.view = Observed(res.emitted, history.view)]

(***************************************************************************)
(* The events: the signals of the request manager, of the timer and of the *)
(* replies, each with the slot connected to it.                            *)
(***************************************************************************)
\* api: loginSuccessful() -> updateCameras()
LoginSuccessful ==
    /\ ~online
    /\ online' = TRUE
    /\ updateCameras(TRUE, "loginSuccessful")
    /\ UNCHANGED <<cameraVars, m_statusAlertMessage, certVars, portVars, history>>

\* m_refreshTimer: timeout() -> updateCameras()
Timeout ==
    /\ m_refreshTimer
    /\ updateCameras(online, "timeout")
    /\ UNCHANGED <<online, cameraVars, m_statusAlertMessage, certVars, portVars, history>>

\* api: disconnected() -> disconnected(); the requests in flight stay in
\* flight and are now those of an earlier session
Disconnected ==
    /\ online
    /\ online' = FALSE
    /\ pendingCameras' = IF pendingCameras = {} THEN {} ELSE {"old"}
    /\ disconnected
    /\ UNCHANGED <<m_refreshTimer, pendingStats, certVars, portVars>>

\* reply: finished() -> updateCamerasReply(), for a request of this session
\* (cur) or of an earlier one (old); more requests of that age may be in
\* flight, one of every firing of the timer since
CamerasReplyFinished(replies) ==
    \E age \in pendingCameras, f \in replies :
        /\ updateCamerasReply(f, age)
        /\ \E more \in BOOLEAN :
            pendingCameras' = IF more THEN pendingCameras ELSE pendingCameras \ {age}
        /\ UNCHANGED <<online, m_refreshTimer, pendingStats, certVars, portVars>>

\* reply: finished() -> updateStatsReply()
StatsReplyFinished(replies) ==
    \E r \in replies :
        /\ pendingStats
        /\ updateStatsReply(r)
        /\ \E more \in BOOLEAN : pendingStats' = more
        /\ UNCHANGED <<online, m_refreshTimer, pendingCameras, certVars, portVars>>

\* the SSL handshake asks isKnownCertificate(certificate)
IsKnownCertificate(certificate) ==
    \E res \in {IsKnownCertificateResult(certificate, sslDigest)} :
        /\ sslDigest' = res.sslDigest
        /\ firstUse' = IF sslDigest = 0 THEN res.sslDigest ELSE firstUse
        /\ last' = [Ran("isKnownCertificate") EXCEPT
                      !.certificate = certificate,
                      !.result = res.result,
                      !.emitted = res.emitted]
        /\ UNCHANGED <<sessionVars, cameraVars, m_statusAlertMessage, portVars, history>>

\* the user accepts a certificate: setKnownCertificate(certificate)
SetKnownCertificate(certificate) ==
    /\ sslDigest' = SetKnownCertificateResult(certificate)
    /\ firstUse' = 0
    /\ last' = [Ran("setKnownCertificate") EXCEPT
                  !.certificate = certificate,
                  !.emitted = <<Changed>>]
    /\ UNCHANGED <<sessionVars, cameraVars, m_statusAlertMessage, portVars, history>>

\* the user edits the port: setPort(port)
SetPort(port) ==
    \E res \in {SetPortResult(port)} :
        /\ settingsPort' = res.settingsPort
        /\ m_port' = res.m_port
        /\ last' = [Ran("setPort") EXCEPT !.port = port, !.emitted = <<Changed>>]
        /\ UNCHANGED <<sessionVars, cameraVars, m_statusAlertMessage, certVars, history>>

\* the client is started again while the server is offline: the object is
\* constructed anew over the settings as they are, readFromSettings()
Reconstructed ==
    /\ ~online /\ ~m_refreshTimer /\ m_cameras = <<>> /\ ~devicesLoaded
    /\ m_statusAlertMessage = <<>>
    /\ m_port' = ReadFromSettings(settingsPort)
    /\ last' = Ran("DVRServer")
    /\ UNCHANGED <<sessionVars, cameraVars, m_statusAlertMessage, certVars, settingsPort,
                   history>>

(***************************************************************************)
(* Specifications.                                                         *)
(***************************************************************************)
\* the session: every interleaving of the events, with short documents
Next ==
    \/ LoginSuccessful
    \/ Timeout
    \/ Disconnected
    \/ CamerasReplyFinished(FinishedShortCamerasReplies)
    \/ StatsReplyFinished(ShortStatsReplies)

Spec == Init /\ [][Next]_vars

\* the session with its timer: an active QTimer fires again and again
SpecPolling == Spec /\ WF_vars(Timeout)

\* reconciliation: one session that stays online, with longer device list
\* documents, while the stats replies stay in flight
NextReconcile ==
    \/ LoginSuccessful
    \/ Timeout
    \/ CamerasReplyFinished(FinishedLongCamerasReplies)

SpecReconcile == Init /\ [][NextReconcile]_vars

\* reconciliation across sessions: logins and disconnects with short
\* device list documents, while the stats replies stay in flight
NextReconnect ==
    \/ LoginSuccessful
    \/ Timeout
    \/ Disconnected
    \/ CamerasReplyFinished(FinishedShortCamerasReplies)

SpecReconnect == Init /\ [][NextReconnect]_vars

\* the status alert: the session with longer stats documents, while the
\* device list replies stay in flight
NextStats ==
    \/ LoginSuccessful
    \/ Timeout
    \/ Disconnected
    \/ StatsReplyFinished(LongStatsReplies)

SpecStats == Init /\ [][NextStats]_vars

\* the certificate store
NextCertificate ==
    \E certificate \in Certificates :
        \/ IsKnownCertificate(certificate)
        \/ SetKnownCertificate(certificate)

SpecCertificate == Init /\ [][NextCertificate]_vars

\* the port setting
NextPort ==
    \/ \E port \in Ports : SetPort(port)
    \/ Reconstructed

SpecPort == InitPort /\ [][NextPort]_vars

(***************************************************************************)
(* Properties.                                                             *)
(***************************************************************************)
RanCamerasReply == last.op = "updateCamerasReply"

RanStatsReply == last.op = "updateStatsReply"

Emitted(sig) == Signals(last.emitted, sig) # {}

\* the cameraRemoved notifications of the last handler, in order
Removals == SelectSeq(last.emitted, LAMBDA n : n.sig = "cameraRemoved")

\* C1: in every reachable state the refresh timer is active if and only if
\* the session is online (so the disconnected handler stops the timer)
C1_TimerIffOnline == m_refreshTimer <=> online

\* C2: a device list or stats reply that finishes after the session was
\* disconnected changes neither the camera list nor devicesLoaded nor the
\* status alert and emits nothing, so the camera list is empty whenever the
\* session is disconnected
C2_StaleReplyIgnored ==
    /\ [][(last'.op \in {"updateCamerasReply", "updateStatsReply"} /\ last'.stale)
            => /\ m_cameras' = m_cameras
               /\ devicesLoaded' = devicesLoaded
               /\ m_statusAlertMessage' = m_statusAlertMessage
               /\ last'.emitted = <<>>]_vars
    /\ [](~online => m_cameras = <<>>)

\* C3: after a device list reply processed without transport or parse error
\* the ids of the cameras in the list are exactly the device ids of the reply
C3_SetEquality == (RanCamerasReply /\ last.ok) => Range(m_cameras) = last.observed

\* a successful reply that both removed a camera and added one
C3_Witness ==
    RanCamerasReply /\ last.ok /\ Emitted("cameraRemoved") /\ Emitted("cameraAdded")

\* C4: the disconnected handler leaves the camera list empty, the alert empty
\* and devicesLoaded false, and emits exactly one cameraRemoved per former
\* camera, each camera being offline when its notification is emitted
C4_DisconnectClears ==
    last.op = "disconnected" =>
        /\ m_cameras = <<>>
        /\ m_statusAlertMessage = <<>>
        /\ ~devicesLoaded
        /\ Len(Removals) = Len(last.before.cameras)
        /\ \A i \in 1..Len(Removals) :
            /\ Removals[i].id = last.before.cameras[i]
            /\ ~Removals[i].online
            /\ ~camOnline[Removals[i].id]

\* a disconnect that found two cameras and an alert
C4_Witness ==
    /\ last.op = "disconnected"
    /\ Len(last.before.cameras) = 2
    /\ last.before.alert # <<>>

\* C5: a device list reply whose devices element breaks off after well formed
\* entries leaves the camera list as it was and emits neither cameraAdded nor
\* cameraRemoved
C5_NoPartialMutation ==
    [][(last'.op = "updateCamerasReply" /\ last'.structural)
        => /\ m_cameras' = m_cameras
           /\ Signals(last'.emitted, "cameraAdded") = {}
           /\ Signals(last'.emitted, "cameraRemoved") = {}]_vars

\* C6: a device list reply with a transport error, or without a devices
\* element, leaves the camera list and devicesLoaded as they were and emits
\* none of cameraAdded, cameraRemoved and devicesReady
C6_ErrorReplyIgnored ==
    [][(last'.op = "updateCamerasReply" /\ (last'.error \/ last'.noDevices))
        => /\ m_cameras' = m_cameras
           /\ devicesLoaded' = devicesLoaded
           /\ Signals(last'.emitted, "cameraAdded") = {}
           /\ Signals(last'.emitted, "cameraRemoved") = {}
           /\ Signals(last'.emitted, "devicesReady") = {}]_vars

\* a document without devices element arrived while cameras were listed and
\* the devices had not been reported ready
C6_Witness == RanCamerasReply /\ last.noDevices /\ m_cameras # <<>> /\ ~devicesLoaded

\* C7: every valid device entry that follows an invalid entry of the same
\* reply is processed: its camera is online and in the camera list
C7_SiblingsProcessed ==
    RanCamerasReply =>
        \A id \in last.siblings : id \in Range(m_cameras) /\ camOnline[id]

\* C8: the same successfully parsed device list reply handled twice in a row
\* emits nothing the second time and leaves the camera list as it was
C8_Idempotent ==
    [][(last'.op = "updateCamerasReply" /\ last'.repeat)
        => /\ m_cameras' = m_cameras
           /\ Signals(last'.emitted, "cameraAdded") = {}
           /\ Signals(last'.emitted, "cameraRemoved") = {}
           /\ Signals(last'.emitted, "devicesReady") = {}]_vars

\* a reply reporting two devices handled for the second time in a row
C8_Witness == RanCamerasReply /\ last.repeat /\ Cardinality(last.observed) = 2

\* C9: a stats reply without transport error whose stats element has a
\* bc-server-running child with trimmed text down yields the message
\* "Server process stopped", wherever its message children are
C9_ServerDownWins ==
    (RanStatsReply /\ last.down) => m_statusAlertMessage = ServerProcessStopped

\* C10: once a first use has pinned a digest, the stored digest stays that
\* digest and every isKnownCertificate returns whether the certificate has
\* that digest, until setKnownCertificate is called
C10_TrustOnFirstUse ==
    firstUse # 0 =>
        /\ sslDigest = firstUse
        /\ last.op = "isKnownCertificate" =>
            last.result = (Digest(last.certificate) = firstUse)

\* a certificate with another digest is rejected after a first use
C10_Witness == firstUse # 0 /\ last.op = "isKnownCertificate" /\ ~last.result

\* C11: a configured port of 0 resolves to 7001: serverPort() is 7001 after
\* setPort(0) and after construction over an absent or zero stored port, and
\* rtspPort() is serverPort() + 1
C11_PortZeroResolves ==
    /\ (last.op = "setPort" /\ last.port = 0) => ServerPort = DefaultPort
    /\ (last.op = "DVRServer" /\ settingsPort = 0) => ServerPort = DefaultPort
    /\ RtspPort = ServerPort + 1

\* C12: two consecutive stats replies that derive the same message, with no
\* disconnect in between, emit one statusAlertMessageChanged in total when
\* the message differs from the alert stored before the first, and none when
\* it equals it
C12_Dedup ==
    history.stats.repeat =>
        history.stats.pairEmitted = IF history.stats.pairDiffered THEN 1 ELSE 0

\* the second of two replies deriving a message that differed from the alert
C12_Witness == RanStatsReply /\ history.stats.repeat /\ history.stats.pairDiffered

\* C13: in every reachable state the camera list holds at most one camera of
\* each device id, whatever ids the replies repeat and in whatever order the
\* replies of the poll cycles finish
C13_UniqueIds ==
    \A i, j \in 1..Len(m_cameras) : m_cameras[i] = m_cameras[j] => i = j

\* a successfully parsed reply listed the same device twice
C13_Witness ==
    /\ RanCamerasReply /\ last.ok
    /\ Len(last.reply.entries) = 2
    /\ IsValidEntry(last.reply.entries[1])
    /\ last.reply.entries[2] = last.reply.entries[1]
    /\ EntryId(last.reply.entries[1]) \in Range(m_cameras)

\* C14: a device list reply handler emits devicesReady, once, exactly when
\* the reply is processed without transport or parse error and devicesLoaded
\* was false before it or the camera list was empty before it and is not
\* after it; a reply that fails leaves devicesLoaded as it was
C14_DevicesReadyRule ==
    [][last'.op = "updateCamerasReply" =>
        /\ Cardinality(Signals(last'.emitted, "devicesReady")) =
              IF /\ last'.ok
                 /\ \/ ~devicesLoaded
                    \/ m_cameras = <<>> /\ m_cameras' # <<>>
              THEN 1 ELSE 0
        /\ ~last'.ok => devicesLoaded' = devicesLoaded]_vars

\* devicesReady was emitted again, for a list that was empty and loaded
C14_Witness == RanCamerasReply /\ last.ok /\ last.wasLoaded /\ Emitted("devicesReady")

\* C15: in a session that follows a disconnect, the first device list reply
\* of that session processed without error emits devicesReady, whatever
\* replies of earlier sessions finished before it
C15_ReadyAfterReconnect ==
    [][(/\ last'.op = "updateCamerasReply" /\ last'.age = "cur" /\ last'.ok
        /\ history.reconnect /\ ~history.synced)
        => Signals(last'.emitted, "devicesReady") # {}]_vars

\* C16: a camera that a successfully parsed device list reply removes is
\* offline when its cameraRemoved notification is emitted
C16_RemovedOffline ==
    (RanCamerasReply /\ last.ok) =>
        \A i \in 1..Len(Removals) : ~Removals[i].online

\* C17: no handler emits a statusAlertMessageChanged whose message equals the
\* alert message stored immediately before the handler ran
C17_AlertChangeOnly ==
    [][\A i \in Signals(last'.emitted, "statusAlertMessageChanged") :
        last'.emitted[i].msg # m_statusAlertMessage]_vars

\* the requests of path that the last handler sent
Sent(path) == {i \in 1..Len(last.sent) : last.sent[i] = path}

\* C18: a poll trigger (login success or timer firing) that runs while the
\* transport is online sends exactly one device list request and exactly one
\* stats request and leaves the timer active; one that runs while it is not
\* online sends nothing and stops the timer; nothing is sent while offline
C18_PollTrigger ==
    /\ last.op \in {"loginSuccessful", "timeout"} =>
          IF online
          THEN /\ Cardinality(Sent(DevicesRequest)) = 1
               /\ Cardinality(Sent(StatsRequest)) = 1
               /\ Len(last.sent) = 2
               /\ m_refreshTimer
          ELSE last.sent = <<>> /\ ~m_refreshTimer
    /\ last.sent # <<>> => online

\* the timer fired after the session was disconnected
C18_Witness == last.op = "timeout" /\ ~online /\ ~m_refreshTimer /\ last.sent = <<>>

\* the last handler was a reply handler and the reply failed: a transport
\* error, a device list that did not parse, or a stats document without
\* message element
FailedReply ==
    \/ RanCamerasReply /\ ~last.ok
    \/ RanStatsReply /\ (last.error \/ m_statusAlertMessage = InvalidServerResponse)

\* C19: a reply that fails changes neither the session state nor the timer,
\* and if the session stays online from some point on, the timer fires
\* infinitely often and each firing sends a device list and a stats request
C19_PollingContinues ==
    /\ [][FailedReply' => (online' = online /\ m_refreshTimer' = m_refreshTimer)]_vars
    /\ (<>[]online) =>
          []<>(/\ last.op = "timeout"
               /\ Sent(DevicesRequest) # {} /\ Sent(StatsRequest) # {})

\* a device list reply failed while the session was online and polling
C19_Witness == FailedReply /\ RanCamerasReply /\ online /\ m_refreshTimer

\* C20: in every reachable state the ids announced by a cameraAdded and not
\* by a later cameraRemoved are the ids of the camera list, no cameraAdded
\* was emitted for an id announced and no cameraRemoved for one that was not
C20_NotificationsBalanced ==
    /\ history.view.announced = Range(m_cameras)
    /\ history.view.balanced

\* after a reconnect a reply replaced one camera by another
C20_Witness ==
    /\ RanCamerasReply /\ history.reconnect
    /\ Emitted("cameraAdded") /\ Emitted("cameraRemoved")

====
